---- MODULE Spec2Model ----
(***************************************************************************)
(* Model of the COMSOL optimisation scripts of Comsol_Optimization/:       *)
(*   "copy" = Comsol_Optimize copy.py                                      *)
(*   "easy" = Hardhaq_Optimization_Easy.py                                 *)
(*   "opt"  = Comsol_Optimize.py                                           *)
(* Real numbers are exact: a rational is <<num, den>> (den > 0, lowest      *)
(* terms), and the irrational results of math.sqrt are kept as surds        *)
(* <<num, den, qnum, qden>> = (num/den) * sqrt(qnum/qden).                  *)
(***************************************************************************)
EXTENDS Integers, Sequences, FiniteSets, TLC

\* ------------------------------------------------------------------------
\* Bounds of the model
\* ------------------------------------------------------------------------
GeomMax == 2
NormSteps == 3
MaxTrials == 2

\* ------------------------------------------------------------------------
\* Exact rational arithmetic (Python float arithmetic without rounding)
\* ------------------------------------------------------------------------
Abs(n) == IF n < 0 THEN -n ELSE n

RECURSIVE GCD(_, _)
GCD(a, b) == IF b = 0 THEN a ELSE GCD(b, a % b)

Rat(n, d) ==
    LET s == IF d < 0 THEN -1 ELSE 1
        g == GCD(Abs(n), Abs(d))
    IN  <<(s * n) \div g, (s * d) \div g>>

RInt(n) == <<n, 1>>
RNeg(a) == <<-a[1], a[2]>>
RAdd(a, b) ==
    LET g == GCD(a[2], b[2])
    IN  Rat(a[1] * (b[2] \div g) + b[1] * (a[2] \div g), (a[2] \div g) * b[2])
RSub(a, b) == RAdd(a, RNeg(b))
RMul(a, b) ==
    LET g1 == GCD(Abs(a[1]), b[2])
        g2 == GCD(Abs(b[1]), a[2])
    IN  Rat((a[1] \div g1) * (b[1] \div g2), (a[2] \div g2) * (b[2] \div g1))
RDiv(a, b) == RMul(a, IF b[1] < 0 THEN <<-b[2], -b[1]>> ELSE <<b[2], b[1]>>)
RLeq(a, b) == RSub(a, b)[1] <= 0
RLt(a, b) == RSub(a, b)[1] < 0
RMax(a, b) == IF RLeq(b, a) THEN a ELSE b
RMin(a, b) == IF RLeq(a, b) THEN a ELSE b

\* floor of the integer square root, by bisection
RECURSIVE ISqrtIn(_, _, _)
ISqrtIn(n, lo, hi) ==
    IF hi - lo <= 1 THEN lo
    ELSE LET mid == (lo + hi) \div 2
         IN  IF mid * mid <= n THEN ISqrtIn(n, mid, hi) ELSE ISqrtIn(n, lo, mid)
ISqrt(n) == IF n < 1 THEN 0 ELSE ISqrtIn(n, 1, IF n < 46340 THEN n + 1 ELSE 46341)

\* q is the square of a rational
IsSquare(q) == q[1] >= 0 /\ ISqrt(q[1]) * ISqrt(q[1]) = q[1] /\ ISqrt(q[2]) * ISqrt(q[2]) = q[2]

\* the rational square root of the square of a rational
RSqrt(q) == <<ISqrt(q[1]), ISqrt(q[2])>>

\* reals c * sqrt(q): coefficient, radicand, sign and square
IsRational(x) == Len(x) = 2
Coef(x) == <<x[1], x[2]>>
Radicand(x) == IF IsRational(x) THEN <<1, 1>> ELSE <<x[3], x[4]>>
Surd(c, q) ==
    IF c[1] = 0 \/ q[1] = 0 THEN <<0, 1>>
    ELSE IF IsSquare(q) THEN RMul(c, RSqrt(q))
    ELSE <<c[1], c[2], q[1], q[2]>>
Sign(x) == IF x[1] > 0 THEN 1 ELSE IF x[1] < 0 THEN -1 ELSE 0
XSqr(x) == RMul(RMul(Coef(x), Coef(x)), Radicand(x))

\* math.sqrt of a non-negative rational
Sqrt(q) == Surd(<<1, 1>>, q)

\* x * y, x / y, x <= y, max(x, y), min(x, y) on reals
XMul(x, y) == Surd(RMul(Coef(x), Coef(y)), RMul(Radicand(x), Radicand(y)))
XDiv(x, y) == Surd(RDiv(Coef(x), Coef(y)), RDiv(Radicand(x), Radicand(y)))
XLeq(x, y) ==
    IF Sign(x) <= 0 /\ Sign(y) >= 0 THEN TRUE
    ELSE IF Sign(x) >= 0 /\ Sign(y) <= 0 THEN FALSE
    ELSE IF Sign(x) > 0 THEN RLeq(XSqr(x), XSqr(y))
    ELSE RLeq(XSqr(y), XSqr(x))
XMax(x, y) == IF XLeq(y, x) THEN x ELSE y
XMin(x, y) == IF XLeq(x, y) THEN x ELSE y

\* ------------------------------------------------------------------------
\* Comsol_Optimize.py: configuration of the clamped sphere
\* ------------------------------------------------------------------------
\* Python None, where a number is expected
None == <<>>
SPHERE_SAFETY_FACTOR == <<21, 20>>
MIN_SPHERE_MULT == <<5, 1>>
MAX_SPHERE_MULT == <<50, 1>>

i_spacing == 4
i_radius == 5
i_length == 6
i_endcap_off == 7

\* float(val) if val is not None else 0.0, for endcap_thick and endcap_rad
EvalOrZero(val) == IF val = None THEN RInt(0) ELSE val

\* half_height^2 + struct_radius^2 of the cylinder derived from p
EnclosingSq(p, thickEval, radEval) ==
    LET endcap_thick == EvalOrZero(thickEval)
        endcap_rad == EvalOrZero(radEval)
        cyl_radius == RAdd(RDiv(p[i_spacing], RInt(2)), p[i_radius])
        struct_radius == RMax(cyl_radius, endcap_rad)
        cyl_height == RAdd(p[i_length], RMul(RInt(2), RAdd(p[i_endcap_off], endcap_thick)))
        half_height == RDiv(cyl_height, RInt(2))
    IN  RAdd(RMul(half_height, half_height), RMul(struct_radius, struct_radius))

\* R_sphere without the upper clamp: max(min_allowed, R_min * SPHERE_SAFETY_FACTOR)
SphereRadius_without_upper_clamp(R_min, rod_radius) ==
    XMax(RMul(MIN_SPHERE_MULT, rod_radius), XMul(R_min, SPHERE_SAFETY_FACTOR))
\* R_sphere = max(min_allowed, min(R_min * SPHERE_SAFETY_FACTOR, max_allowed))
SphereRadius(R_min, rod_radius) ==
    LET min_allowed == RMul(MIN_SPHERE_MULT, rod_radius)
        max_allowed == RMul(MAX_SPHERE_MULT, rod_radius)
    IN  XMax(min_allowed, XMin(XMul(R_min, SPHERE_SAFETY_FACTOR), max_allowed))

\* the corrector with the rescaling applied to rod_radius as well
enforce_scaling_radius(p, thickEval, radEval) ==
    LET R_min == Sqrt(EnclosingSq(p, thickEval, radEval))
        R_sphere == SphereRadius(R_min, p[i_radius])
        current == Sqrt(EnclosingSq(p, thickEval, radEval))
    IN  IF XLeq(current, R_sphere)
        THEN [p |-> p, adjusted |-> FALSE, raised |-> FALSE]
        ELSE IF Sign(current) = 0
        THEN [p |-> p, adjusted |-> FALSE, raised |-> TRUE]
        ELSE LET scale == XMin(RInt(1), XDiv(R_sphere, current))
             IN  [p |-> [p EXCEPT ![i_spacing] = XMul(p[i_spacing], scale),
                                  ![i_radius] = XMul(p[i_radius], scale),
                                  ![i_length] = XMul(p[i_length], scale),
                                  ![i_endcap_off] = XMul(p[i_endcap_off], scale)],
                  adjusted |-> TRUE, raised |-> FALSE]
\* enforce_inscribed_constraint(p, model): thickEval and radEval are what
\* try_eval(model, "endcap_thick") and try_eval(model, "endcap_rad") gave.
\* raised = TRUE is the ZeroDivisionError of R_sphere / current.
enforce_inscribed_constraint(p, thickEval, radEval) ==
    LET R_min == Sqrt(EnclosingSq(p, thickEval, radEval))
        R_sphere == SphereRadius(R_min, p[i_radius])
        current == Sqrt(EnclosingSq(p, thickEval, radEval))
    IN  IF XLeq(current, R_sphere)
        THEN [p |-> p, adjusted |-> FALSE, raised |-> FALSE]
        ELSE IF Sign(current) = 0
        THEN [p |-> p, adjusted |-> FALSE, raised |-> TRUE]
        ELSE LET scale == XMin(RInt(1), XDiv(R_sphere, current))
             IN  [p |-> [p EXCEPT ![i_spacing] = XMul(p[i_spacing], scale),
                                  ![i_length] = XMul(p[i_length], scale),
                                  ![i_endcap_off] = XMul(p[i_endcap_off], scale)],
                  adjusted |-> TRUE, raised |-> FALSE]

\* ------------------------------------------------------------------------
\* Comsol_Optimize copy.py and Hardhaq_Optimization_Easy.py: bounds tables
\* and the normalisation helpers
\* ------------------------------------------------------------------------
bounds_copy ==
    << <<RInt(0), RInt(1000)>>,         \* V_rf
       <<RInt(0), RInt(500)>>,          \* V_dc
       <<RInt(0), RInt(500)>>,          \* V_endcap
       <<Rat(3, 1000), Rat(1, 10)>>,    \* rod_spacing
       <<Rat(5, 10000), Rat(8, 1000)>>, \* rod_radius
       <<Rat(2, 100), Rat(1, 10)>>,     \* rod_length
       <<RInt(0), Rat(1, 100)>>,        \* endcap_offset
       <<Rat(5, 1000), Rat(1, 100)>>,   \* endcap_rad
       <<Rat(1, 10000), Rat(1, 1000)>>, \* endcap_thick
       <<RInt(1000000), RInt(100000000)>> >>  \* f

bounds_easy ==
    << <<RInt(0), RInt(1000)>>,         \* V_rf
       <<RInt(0), RInt(500)>>,          \* V_dc
       <<RInt(0), RInt(500)>>,          \* V_endcap
       <<Rat(9, 1000), Rat(1, 100)>>,   \* electrode_spacing
       <<Rat(3, 1000), Rat(44, 10000)>>, \* electrode_amplitude
       <<RInt(1), Rat(16, 10)>>,        \* umax
       <<Rat(5, 1000), Rat(1, 100)>>,   \* endcap_offset
       <<Rat(5, 1000), Rat(1, 100)>>,   \* endcap_rad
       <<Rat(1, 10000), Rat(1, 1000)>>, \* endcap_thick
       <<RInt(1000000), RInt(100000000)>> >>  \* f

baseline_copy ==
    <<RInt(300), RInt(50), RInt(10), Rat(5, 1000), Rat(2, 1000), Rat(4, 100),
      Rat(1, 1000), Rat(6, 1000), Rat(5, 10000), RInt(10000000)>>

baseline_easy ==
    <<RInt(300), RInt(50), RInt(10), Rat(9, 1000), Rat(4, 1000), RInt(1),
      Rat(5, 1000), Rat(6, 1000), Rat(5, 10000), RInt(10000000)>>

bounds(v) == IF v = "easy" THEN bounds_easy ELSE bounds_copy
baseline_values(v) == IF v = "easy" THEN baseline_easy ELSE baseline_copy

ZipLen(x, b) == IF Len(x) < Len(b) THEN Len(x) ELSE Len(b)

\* [(xi - low) / (high - low) for xi, (low, high) in zip(x, bounds)]
normalize(x, b) ==
    [i \in 1..ZipLen(x, b) |-> RDiv(RSub(x[i], b[i][1]), RSub(b[i][2], b[i][1]))]

\* denormalize with the span (high - low) replaced by high
denormalize_scaled_by_high(y, b) ==
    [i \in 1..ZipLen(y, b) |-> RAdd(b[i][1], RMul(y[i], b[i][2]))]
\* [low + yi * (high - low) for yi, (low, high) in zip(y, bounds)]
denormalize(y, b) ==
    [i \in 1..ZipLen(y, b) |-> RAdd(b[i][1], RMul(y[i], RSub(b[i][2], b[i][1])))]

\* Comsol_Optimize.py: baseline of the 7-parameter script
baseline_opt ==
    <<RInt(300), RInt(50), RInt(10), Rat(5, 1000), Rat(2, 1000), Rat(4, 100), Rat(1, 1000)>>

\* ------------------------------------------------------------------------
\* Metrics and scores
\* A metric value is None or a decimal <<c, e>> = c * 1e-5 + e * 1e-9 with
\* |e| < 10^4, so that the thresholds and the 1e-9 of objective() are exact.
\* ------------------------------------------------------------------------
Dec(c, e) == <<c, e>>
DLt(a, b) == a[1] < b[1] \/ (a[1] = b[1] /\ a[2] < b[2])
DAdd(a, b) == <<a[1] + b[1], a[2] + b[2]>>
EPS == Dec(0, 1)

\* sanity bounds of run_trial: offset above, depth below, power below
OFFSET_MAX(v) == IF v = "copy" THEN Dec(1500000, 0) ELSE Dec(1913000, 0)
DEPTH_MIN(v) == IF v = "copy" THEN Dec(10, 0) ELSE Dec(1, 0)
POWER_MIN == Dec(1000000, 0)

\* scores: the constants 0 and -1e6, and the value of objective()
Const(n) == [tag |-> "const", value |-> n]
PENALTY == Const(-1000000)
Objective(d, o, pw) == [tag |-> "objective", sign |-> 1, depth |-> d, offset |-> o, power |-> pw]
Raised(e) == [tag |-> "raised", exc |-> e]
NoValue == [tag |-> "none"]
IsRaised(x) == x.tag = "raised"

\* score returned as it is
Negate_forgotten(sc) == sc
\* -score
Negate(sc) ==
    IF sc.tag = "const" THEN Const(-sc.value) ELSE [sc EXCEPT !.sign = -sc.sign]

\* objective(depth_eV, offset_mm, P_est_mW): the weighted sum of the three
\* quotients, or the exception of an operand None or a divisor 0
\* (Comsol_Optimize.py line 80, "ret+urn score", is read as "return score")
objective(depth_eV, offset_mm, P_est_mW) ==
    IF depth_eV = None THEN Raised("TypeError")
    ELSE IF offset_mm = None THEN Raised("TypeError")
    ELSE IF DAdd(offset_mm, EPS) = Dec(0, 0) THEN Raised("ZeroDivisionError")
    ELSE IF P_est_mW = None THEN Raised("TypeError")
    ELSE IF DAdd(P_est_mW, EPS) = Dec(0, 0) THEN Raised("ZeroDivisionError")
    ELSE Objective(depth_eV, offset_mm, P_est_mW)

\* targets and weights of the scripts (Comsol_Optimize.py retuned them)
targets(v) ==
    IF v = "opt"
    THEN [depth_eV |-> Dec(900000, 0), offset_mm |-> Dec(500, 0), P_est_mW |-> Dec(200000000, 0)]
    ELSE [depth_eV |-> Dec(500000, 0), offset_mm |-> Dec(100, 0), P_est_mW |-> Dec(100000000, 0)]
weights(v) ==
    IF v = "opt"
    THEN [depth_eV |-> Dec(200000, 0), offset_mm |-> Dec(20000000, 0), P_est_mW |-> Dec(50000, 0)]
    ELSE [depth_eV |-> Dec(100000, 0), offset_mm |-> Dec(1000000, 0), P_est_mW |-> Dec(80000, 0)]

\* sign of a metric value, and the order of two of them (-1, 0, 1)
DSign(a) == IF DLt(a, Dec(0, 0)) THEN -1 ELSE IF a = Dec(0, 0) THEN 0 ELSE 1
DCmp(a, b) == IF DLt(a, b) THEN -1 ELSE IF a = b THEN 0 ELSE 1

\* order of the quotients a / den and b / den, den # 0
CmpSameDen(a, b, den) == DSign(den) * DCmp(a, b)

\* order of the quotients num / x1 and num / x2, x1 # 0 and x2 # 0: the
\* quotient falls as the divisor grows on either side of 0 and changes sign
\* with it
CmpSameNum(num, x1, x2) ==
    IF DSign(x1) = DSign(x2) THEN DSign(num) * DCmp(x2, x1)
    ELSE DSign(num) * DCmp(x1, x2)

\* order of the three weighted terms of objective() for two metric
\* triples: w * depth / (target + 1e-9), w * (target + 1e-9) / (metric + 1e-9)
depth_term_cmp(v, a, b) ==
    DSign(weights(v).depth_eV)
        * CmpSameDen(a.depth, b.depth, DAdd(targets(v).depth_eV, EPS))
offset_term_cmp(v, a, b) ==
    DSign(weights(v).offset_mm)
        * CmpSameNum(DAdd(targets(v).offset_mm, EPS), DAdd(a.offset, EPS), DAdd(b.offset, EPS))
power_term_cmp(v, a, b) ==
    DSign(weights(v).P_est_mW)
        * CmpSameNum(DAdd(targets(v).P_est_mW, EPS), DAdd(a.power, EPS), DAdd(b.power, EPS))

\* a < b for two values of objective(): no term of the weighted sum is
\* larger in a and one is smaller (exact when two terms are equal)
ScoreLt(v, a, b) ==
    /\ a.tag = "objective" /\ b.tag = "objective"
    /\ a.sign = 1 /\ b.sign = 1
    /\ depth_term_cmp(v, a, b) <= 0
    /\ offset_term_cmp(v, a, b) <= 0
    /\ power_term_cmp(v, a, b) <= 0
    /\ \/ depth_term_cmp(v, a, b) < 0
       \/ offset_term_cmp(v, a, b) < 0
       \/ power_term_cmp(v, a, b) < 0

\* ------------------------------------------------------------------------
\* run_trial of the three scripts, as a function of what the engine and the
\* log sink answer during the call:
\*   paramFail  model.parameter(name, value) raises
\*   solveFail  model.solve() raises
\*   m          <<depth_eV, offset_mm, P_est_mW>> as try_eval returns them
\*   sinkFail   writer.writerow raises
\* The result names the exception or the value returned, the rows appended
\* to the log, the engine calls made, in order, and the vector pushed.
\* ------------------------------------------------------------------------
Calls(n, name) == [i \in 1..n |-> name]
Trial(raised, ret, rows, calls, pushed) ==
    [raised |-> raised, ret |-> ret, rows |-> rows, calls |-> calls, pushed |-> pushed]

\* writer.writerow(...) inside try/except: the row, unless the sink raises
Written(row, sinkFail) == IF sinkFail THEN <<>> ELSE <<row>>

\* Comsol_Optimize copy.py, run_trial
run_trial_copy(params, paramFail, solveFail, m, sinkFail) ==
    LET depth_eV == m[1]
        offset_mm == m[2]
        P_est_mW == m[3]
        calls == Calls(10, "parameter") \o <<"solve">> \o Calls(3, "evaluate")
        score1 == IF solveFail THEN PENALTY ELSE Const(0)
        score2 == IF score1 = PENALTY THEN score1 ELSE objective(depth_eV, offset_mm, P_est_mW)
        score3 == IF DLt(OFFSET_MAX("copy"), offset_mm) THEN PENALTY ELSE score2
        score4 == IF DLt(depth_eV, DEPTH_MIN("copy")) THEN PENALTY ELSE score3
        score5 == IF DLt(P_est_mW, POWER_MIN) THEN PENALTY ELSE score4
        row == [params |-> params, depth_eV |-> depth_eV, offset_mm |-> offset_mm,
                P_est_mW |-> P_est_mW, score |-> score5]
    IN  IF paramFail THEN Trial(Raised("EngineError"), NoValue, <<>>, <<"parameter">>, <<>>)
        ELSE IF IsRaised(score2) THEN Trial(score2, NoValue, <<>>, calls, params)
        ELSE IF offset_mm = None \/ depth_eV = None \/ P_est_mW = None
        THEN Trial(Raised("TypeError"), NoValue, <<>>, calls, params)
        ELSE Trial(NoValue, Negate(score5), Written(row, sinkFail), calls, params)

\* Hardhaq_Optimization_Easy.py, run_trial
run_trial_easy(params, paramFail, solveFail, m, sinkFail) ==
    LET depth_eV == m[1]
        offset_mm == m[2]
        P_est_mW == m[3]
        calls == Calls(10, "parameter") \o <<"solve">> \o Calls(3, "evaluate")
        score1 == IF solveFail THEN PENALTY ELSE Const(0)
        score2 == IF score1 = PENALTY THEN score1
                  ELSE IF depth_eV = None \/ offset_mm = None \/ P_est_mW = None THEN PENALTY
                  ELSE objective(depth_eV, offset_mm, P_est_mW)
        score3 == IF offset_mm = None THEN PENALTY
                  ELSE IF DLt(OFFSET_MAX("easy"), offset_mm) THEN PENALTY ELSE score2
        score4 == IF depth_eV = None THEN PENALTY
                  ELSE IF DLt(depth_eV, DEPTH_MIN("easy")) THEN PENALTY ELSE score3
        score5 == IF P_est_mW = None THEN PENALTY ELSE score4
        row == [params |-> params, depth_eV |-> depth_eV, offset_mm |-> offset_mm,
                P_est_mW |-> P_est_mW, score |-> score5]
    IN  IF paramFail THEN Trial(Raised("EngineError"), NoValue, <<>>, <<"parameter">>, <<>>)
        ELSE IF IsRaised(score2) THEN Trial(score2, NoValue, <<>>, calls, params)
        ELSE Trial(NoValue, Negate(score5), Written(row, sinkFail), calls, params)

\* Comsol_Optimize.py, run_trial: ends is <<endcap_thick, endcap_rad>> as
\* try_eval returns them, before the solve (corrector) and after it (row)
run_trial_opt(params0, enforce, ends, paramFail, solveFail, m, sinkFail) ==
    LET fixed == IF enforce THEN enforce_inscribed_constraint(params0, ends[1], ends[2])
                 ELSE [p |-> params0, adjusted |-> FALSE, raised |-> FALSE]
        params == fixed.p
        before == IF enforce THEN Calls(2, "evaluate") ELSE <<>>
        solved == ~paramFail /\ ~solveFail
        depth_eV == IF solved THEN m[1] ELSE None
        offset_mm == IF solved THEN m[2] ELSE None
        P_est_mW == IF solved THEN m[3] ELSE None
        endcap_thick == IF solved THEN ends[1] ELSE None
        endcap_rad == IF solved THEN ends[2] ELSE None
        calls == before \o
                 (IF paramFail THEN <<"parameter">>
                  ELSE Calls(7, "parameter") \o <<"solve">> \o
                       (IF solveFail THEN <<>> ELSE Calls(5, "evaluate")))
        tried == IF solved THEN objective(depth_eV, offset_mm, P_est_mW) ELSE Raised("EngineError")
        score == IF IsRaised(tried) THEN PENALTY ELSE tried
        row == [params |-> params, endcap_thick |-> endcap_thick, endcap_rad |-> endcap_rad,
                depth_eV |-> depth_eV, offset_mm |-> offset_mm,
                P_est_mW |-> P_est_mW, score |-> score]
    IN  IF fixed.raised THEN Trial(Raised("ZeroDivisionError"), NoValue, <<>>, before, <<>>)
        ELSE Trial(NoValue, Negate(score), Written(row, sinkFail), calls, params)

\* ------------------------------------------------------------------------
\* State
\* ------------------------------------------------------------------------
VARIABLES
    variant,  \* script that runs: "copy", "easy" or "opt" ("idle": none)
    enforce,  \* opt: not args.no_enforce
    ends,     \* opt: <<endcap_thick, endcap_rad>> as the model evaluates them
    pc,       \* position of main()
    session,  \* engine session: "none", "open", "released", "stop_failed"
    exitCode, \* process exit status, -1 while the process runs
    log,      \* optimization_log.csv: header and rows, <<>> before it is opened
    trials,   \* calls of run_trial made by the optimizer
    last,     \* the last call of run_trial: its point, what was answered, its result
    cpc,      \* corrector harness: "idle", "input", "once", "twice"
    cin,      \* parameter vector handed to the corrector
    cthick,   \* try_eval(model, "endcap_thick") during the correction
    crad,     \* try_eval(model, "endcap_rad") during the correction
    cout1,    \* result of the corrector on cin
    cout2,    \* result of the corrector on its own output
    npc,      \* mapper harness: "idle", "input", "half", "round"
    ntable,   \* script whose bounds table is used: "copy" or "easy"
    nkind,    \* representation of nin: "physical" or "normalized"
    nin,      \* vector handed to the mapper
    nmid,     \* nin mapped once
    nout,     \* nin mapped there and back
    opc,      \* scoring harness: "idle", "input", "scored"
    otable,   \* script whose targets and weights are used
    oa,       \* first metrics <<depth_eV, offset_mm, P_est_mW>>
    ob,       \* second metrics, differing from oa in one component
    osa,      \* objective(oa)
    osb       \* objective(ob)

corrVars == <<cpc, cin, cthick, crad, cout1, cout2>>
normVars == <<npc, ntable, nkind, nin, nmid, nout>>
objVars == <<opc, otable, oa, ob, osa, osb>>
mainVars == <<variant, enforce, ends, pc, session, exitCode, log, trials, last>>
vars == <<variant, enforce, ends, pc, session, exitCode, log, trials, last,
          cpc, cin, cthick, crad, cout1, cout2, npc, ntable, nkind, nin, nmid, nout,
          opc, otable, oa, ob, osa, osb>>

NoTrial ==
    [called |-> FALSE, pt |-> <<>>, paramFail |-> FALSE, solveFail |-> FALSE, sinkFail |-> FALSE,
     m |-> <<None, None, None>>, out |-> Trial(NoValue, NoValue, <<>>, <<>>, <<>>)]

MainIdle ==
    /\ variant = "idle" /\ enforce = FALSE /\ ends = <<None, None>> /\ pc = "idle"
    /\ session = "none" /\ exitCode = -1 /\ log = <<>> /\ trials = 0 /\ last = NoTrial

CorrIdle ==
    /\ cpc = "idle" /\ cin = <<>> /\ cthick = None /\ crad = None
    /\ cout1 = [p |-> <<>>, adjusted |-> FALSE, raised |-> FALSE]
    /\ cout2 = [p |-> <<>>, adjusted |-> FALSE, raised |-> FALSE]

NormIdle ==
    /\ npc = "idle" /\ ntable = "copy" /\ nkind = "physical"
    /\ nin = <<>> /\ nmid = <<>> /\ nout = <<>>

ObjIdle ==
    /\ opc = "idle" /\ otable = "copy" /\ oa = <<>> /\ ob = <<>>
    /\ osa = NoValue /\ osb = NoValue

NoResult == [p |-> <<>>, adjusted |-> FALSE, raised |-> FALSE]

\* ------------------------------------------------------------------------
\* Feasibility corrector as a pure function: inputs drawn from bounded sets
\* ------------------------------------------------------------------------
ElectricalChoices == {<<RInt(300), RInt(50), RInt(10)>>, <<RInt(0), RInt(500), RInt(-10)>>}
\* radii and half heights of the derived cylinder: legs of 3-4-5 triangles
GridChoices == {0} \cup {3 * j : j \in 1..GeomMax} \cup {4 * j : j \in 1..GeomMax}
RadiusChoices == {Rat(-1, 10), RInt(0), Rat(1, 10), RInt(1)}
SpacingChoices == {RInt(0), Rat(1, 5)} \cup {Rat(10 * g - 1, 5) : g \in GridChoices \ {0}}
LengthChoices == {RInt(2 * g) : g \in GridChoices} \cup {RInt(2 * g - 2) : g \in GridChoices \ {0}}
OffsetChoices == {RInt(0), RInt(1)}
ThickChoices == {None, RInt(1)}
EndRadChoices == {None, RInt(4), RInt(8)}

CorrInputs ==
    {<<e[1], e[2], e[3], s, r, l, o>> :
        e \in ElectricalChoices, s \in SpacingChoices, r \in RadiusChoices,
        l \in LengthChoices, o \in OffsetChoices}

InitCorr ==
    /\ cpc = "input"
    /\ cin \in CorrInputs
    /\ cthick \in ThickChoices
    /\ crad \in EndRadChoices
    /\ cout1 = NoResult
    /\ cout2 = NoResult
    /\ NormIdle
    /\ ObjIdle
    /\ MainIdle

\* params, adjusted = enforce_inscribed_constraint(params, model)
Correct ==
    /\ cpc = "input"
    /\ cout1' = enforce_inscribed_constraint(cin, cthick, crad)
    /\ cpc' = "once"
    /\ UNCHANGED <<cin, cthick, crad, cout2, normVars, objVars, mainVars>>

AllRational(p) == \A i \in DOMAIN p : IsRational(p[i])

\* the corrector applied to its own output, same model parameters (for the
\* outputs that are rational vectors)
Recorrect ==
    /\ cpc = "once"
    /\ ~cout1.raised
    /\ AllRational(cout1.p)
    /\ cout2' = enforce_inscribed_constraint(cout1.p, cthick, crad)
    /\ cpc' = "twice"
    /\ UNCHANGED <<cin, cthick, crad, cout1, normVars, objVars, mainVars>>

NextCorr == Correct \/ Recorrect
SpecCorr == InitCorr /\ [][NextCorr]_vars

\* ------------------------------------------------------------------------
\* Parameter mapper as a pure function: vectors drawn from bounded sets
\* ------------------------------------------------------------------------
\* grid vectors: every component at step k of NormSteps, one at step m
StepVectors == {[i \in 1..10 |-> IF i = j THEN m ELSE k] : j \in 1..10, k \in 0..NormSteps, m \in 0..NormSteps}

\* normalized vectors in [0,1]^n
UnitVectors == {[i \in 1..10 |-> Rat(g[i], NormSteps)] : g \in StepVectors}

\* physical vectors within the bounds table b, and the script's baseline
PhysicalVectors(v) ==
    {[i \in 1..10 |->
        RDiv(RAdd(RMul(RInt(NormSteps - g[i]), bounds(v)[i][1]), RMul(RInt(g[i]), bounds(v)[i][2])),
             RInt(NormSteps))] : g \in StepVectors}
    \cup {baseline_values(v)}

InitNorm ==
    /\ npc = "input"
    /\ ntable \in {"copy", "easy"}
    /\ nkind \in {"physical", "normalized"}
    /\ nin \in IF nkind = "physical" THEN PhysicalVectors(ntable) ELSE UnitVectors
    /\ nmid = <<>>
    /\ nout = <<>>
    /\ CorrIdle
    /\ ObjIdle
    /\ MainIdle

\* y = normalize(x, bounds)
Normalize ==
    \/ /\ npc = "input" /\ nkind = "physical"
       /\ nmid' = normalize(nin, bounds(ntable))
       /\ npc' = "half"
       /\ UNCHANGED <<ntable, nkind, nin, nout, corrVars, objVars, mainVars>>
    \/ /\ npc = "half" /\ nkind = "normalized"
       /\ nout' = normalize(nmid, bounds(ntable))
       /\ npc' = "round"
       /\ UNCHANGED <<ntable, nkind, nin, nmid, corrVars, objVars, mainVars>>

\* x = denormalize(y, bounds)
Denormalize ==
    \/ /\ npc = "input" /\ nkind = "normalized"
       /\ nmid' = denormalize(nin, bounds(ntable))
       /\ npc' = "half"
       /\ UNCHANGED <<ntable, nkind, nin, nout, corrVars, objVars, mainVars>>
    \/ /\ npc = "half" /\ nkind = "physical"
       /\ nout' = denormalize(nmid, bounds(ntable))
       /\ npc' = "round"
       /\ UNCHANGED <<ntable, nkind, nin, nmid, corrVars, objVars, mainVars>>

NextNorm == Normalize \/ Denormalize
SpecNorm == InitNorm /\ [][NextNorm]_vars

\* ------------------------------------------------------------------------
\* Scoring function as a pure function: two metric triples that differ in
\* one component, as try_eval can return them (any float)
\* ------------------------------------------------------------------------
DepthChoices == {Dec(-100000, 0), Dec(0, 0), Dec(1, 0), Dec(500000, 0), Dec(900000, 0)}
OffsetValues == {Dec(-100000, 0), Dec(-100, 0), Dec(0, -1), Dec(0, 0), Dec(100, 0), Dec(500, 0), Dec(2000000, 0)}
PowerChoices == {Dec(-100000000, 0), Dec(0, 0), Dec(500000, 0), Dec(100000000, 0)}
MetricTriples == {<<d, o, pw>> : d \in DepthChoices, o \in OffsetValues, pw \in PowerChoices}

InitObj ==
    /\ opc = "input"
    /\ otable \in {"copy", "easy", "opt"}
    /\ oa \in MetricTriples
    /\ ob \in {t \in MetricTriples :
                \/ t[1] # oa[1] /\ t[2] = oa[2] /\ t[3] = oa[3]
                \/ t[1] = oa[1] /\ t[2] # oa[2] /\ t[3] = oa[3]}
    /\ osa = NoValue
    /\ osb = NoValue
    /\ CorrIdle
    /\ NormIdle
    /\ MainIdle

\* score = objective(depth_eV, offset_mm, P_est_mW), for both triples
Score ==
    /\ opc = "input"
    /\ osa' = objective(oa[1], oa[2], oa[3])
    /\ osb' = objective(ob[1], ob[2], ob[3])
    /\ opc' = "scored"
    /\ UNCHANGED <<otable, oa, ob, corrVars, normVars, mainVars>>

NextObj == Score
SpecObj == InitObj /\ [][NextObj]_vars

\* ------------------------------------------------------------------------
\* The run of a script: main() and the optimizer calling run_trial
\* ------------------------------------------------------------------------
D_OK == Dec(500000, 0)        \* depth 5.0 eV
D_LOW == Dec(0, 0)            \* depth 0 eV
O_OK == Dec(100, 0)           \* offset 0.001 mm
O_HIGH == Dec(2000000, 0)     \* offset 20 mm
O_POLE == Dec(0, -1)          \* offset -1e-9 mm
P_OK == Dec(100000000, 0)     \* power 1000 mW
P_LOW == Dec(500000, 0)       \* power 5 mW

\* what try_eval can return for depth_eV, offset_mm and P_est_mW in a trial:
\* all three, one or all of them missing, one of them out of its range
ALL_OK == <<D_OK, O_OK, P_OK>>
ALL_NONE == <<None, None, None>>
MetricCases ==
    {ALL_OK, ALL_NONE, <<None, O_OK, P_OK>>, <<D_OK, None, P_OK>>, <<D_OK, O_OK, None>>,
     <<D_LOW, O_OK, P_OK>>, <<D_OK, O_HIGH, P_OK>>, <<D_OK, O_OK, P_LOW>>,
     <<D_OK, O_POLE, P_OK>>}

\* what the engine and the log sink answer during one call of run_trial
Answer(pf, sf, m, kf) == [paramFail |-> pf, solveFail |-> sf, m |-> m, sinkFail |-> kf]
Answers ==
    {Answer(TRUE, FALSE, ALL_NONE, FALSE)}
    \cup {Answer(FALSE, TRUE, m, FALSE) : m \in {ALL_OK, ALL_NONE}}
    \cup {Answer(FALSE, FALSE, m, FALSE) : m \in MetricCases}
    \cup {Answer(FALSE, sf, ALL_OK, TRUE) : sf \in BOOLEAN}

\* what the model evaluates endcap_thick and endcap_rad to (opt)
EndCases == {<<None, None>>, <<Rat(5, 10000), Rat(6, 1000)>>}

\* minimize(..., method="Nelder-Mead") without bounds: vertex i of the
\* initial simplex moves component i of the start point by 5 % (to 0.00025
\* when it is 0); the first reflection mirrors the worst vertex through the
\* centroid of the others
SimplexStep(y, i) == IF y[i] = RInt(0) THEN Rat(25, 100000) ELSE RMul(y[i], Rat(5, 100))
SimplexVertex(y, i) == [y EXCEPT ![i] = RAdd(y[i], SimplexStep(y, i))]
Reflection(y, i) ==
    [j \in DOMAIN y |->
        IF j = i THEN RSub(y[j], SimplexStep(y, j))
        ELSE RAdd(y[j], RDiv(RMul(RInt(2), SimplexStep(y, j)), RInt(Len(y))))]

\* x0 of the script is the optimizer's first point; the next ones are a
\* vertex of the initial simplex or its reflection (copy, easy) and an
\* oversized geometry (opt)
x0(v) == IF v = "opt" THEN baseline_opt ELSE baseline_values(v)
y0(v) == normalize(x0(v), bounds(v))
Proposals(v, n) ==
    IF v = "opt"
    THEN IF n = 0 THEN {x0(v)}
         ELSE {[x0(v) EXCEPT ![i_spacing] = Rat(796, 1000), ![i_length] = Rat(598, 1000)]}
    ELSE IF n = 0 THEN {y0(v)}
         ELSE {SimplexVertex(y0(v), 1), Reflection(y0(v), i_length)}

\* normalized_objective(y, ...) of copy and easy; the lambda of opt
Evaluate(v, pt, pf, sf, m, kf) ==
    IF v = "copy" THEN run_trial_copy(denormalize(pt, bounds(v)), pf, sf, m, kf)
    ELSE IF v = "easy" THEN run_trial_easy(denormalize(pt, bounds(v)), pf, sf, m, kf)
    ELSE run_trial_opt(pt, enforce, ends, pf, sf, m, kf)

Header == [kind |-> "header"]

Init ==
    /\ variant \in {"copy", "easy", "opt"}
    /\ enforce \in IF variant = "opt" THEN BOOLEAN ELSE {FALSE}
    /\ ends \in IF variant = "opt" THEN EndCases ELSE {<<None, None>>}
    /\ pc = "start"
    /\ session = "none"
    /\ exitCode = -1
    /\ log = <<>>
    /\ trials = 0
    /\ last = NoTrial
    /\ CorrIdle
    /\ NormIdle
    /\ ObjIdle

idleVars == <<corrVars, normVars, objVars>>

\* find_model_file(): the preferred file or the first *.mph, else sys.exit(2)
FindModelFile ==
    /\ pc = "start"
    /\ \/ /\ pc' = "found"
          /\ UNCHANGED exitCode
       \/ /\ pc' = "exit"
          /\ exitCode' = 2
    /\ UNCHANGED <<variant, enforce, ends, session, log, trials, last, idleVars>>

\* client = mph.start(...), before the try of main(): an exception leaves
\* main(); copy swallows it at top level, easy exits 1, opt dies with it
StartClient ==
    /\ pc = "found"
    /\ \/ /\ session' = "open"
          /\ pc' = "started"
          /\ UNCHANGED exitCode
       \/ /\ pc' = "exit"
          /\ exitCode' = IF variant = "copy" THEN 0 ELSE 1
          /\ UNCHANGED session
    /\ UNCHANGED <<variant, enforce, ends, log, trials, last, idleVars>>

\* model = client.load(str(model_path))
LoadModel ==
    /\ pc = "started"
    /\ pc' \in {"loaded", "failed"}
    /\ UNCHANGED <<variant, enforce, ends, session, exitCode, log, trials, last, idleVars>>

\* model.parameters() and model.parameter(name) for the listing
ListParameters ==
    /\ pc = "loaded"
    /\ pc' \in {"listed", "failed"}
    /\ UNCHANGED <<variant, enforce, ends, session, exitCode, log, trials, last, idleVars>>

\* open("optimization_log.csv", "w") and writer.writeheader()
OpenLog ==
    /\ pc = "listed"
    /\ \/ /\ log' = <<Header>>
          /\ pc' = "optimizing"
       \/ /\ pc' = "failed"
          /\ UNCHANGED log
    /\ UNCHANGED <<variant, enforce, ends, session, exitCode, trials, last, idleVars>>

\* the optimizer calls run_trial on its next point; an exception of
\* run_trial leaves minimize() and the with block
RunTrial ==
    /\ pc = "optimizing"
    /\ trials < MaxTrials
    /\ \E pt \in Proposals(variant, trials), a \in Answers :
          LET out == Evaluate(variant, pt, a.paramFail, a.solveFail, a.m, a.sinkFail)
          IN  /\ last' = [called |-> TRUE, pt |-> pt, paramFail |-> a.paramFail, solveFail |-> a.solveFail,
                          sinkFail |-> a.sinkFail, m |-> a.m, out |-> out]
              /\ log' = log \o out.rows
              /\ pc' = IF IsRaised(out.raised) THEN "failed" ELSE "optimizing"
    /\ trials' = trials + 1
    /\ UNCHANGED <<variant, enforce, ends, session, exitCode, idleVars>>

\* minimize() returns its result
FinishOptimize ==
    /\ pc = "optimizing"
    /\ trials >= 1
    /\ pc' = "optimized"
    /\ UNCHANGED <<variant, enforce, ends, session, exitCode, log, trials, last, idleVars>>

\* model.save()
SaveModel ==
    /\ pc = "optimized"
    /\ pc' \in {"saved", "failed"}
    /\ UNCHANGED <<variant, enforce, ends, session, exitCode, log, trials, last, idleVars>>

\* client.remove(model)
RemoveModel ==
    /\ pc = "saved"
    /\ \/ /\ session' = "released"
          /\ pc' = "removed"
       \/ /\ pc' = "failed"
          /\ UNCHANGED session
    /\ UNCHANGED <<variant, enforce, ends, exitCode, log, trials, last, idleVars>>

\* the except block without its call of client.stop() / client.remove_all()
Teardown_without_stop ==
    /\ pc = "failed"
    /\ session' = session
    /\ pc' = "handled"
    /\ UNCHANGED <<variant, enforce, ends, exitCode, log, trials, last, idleVars>>
\* except Exception: client.stop() (copy, easy) or client.remove_all() (opt),
\* whose own exception is swallowed ("stop_failed")
Teardown ==
    /\ pc = "failed"
    /\ session' \in {"released", "stop_failed"}
    /\ pc' = "handled"
    /\ UNCHANGED <<variant, enforce, ends, exitCode, log, trials, last, idleVars>>

\* the end of main(): copy runs sys.exit(1) after the try, easy returns 0 or
\* 1 to sys.exit, opt returns or re-raises
Exit ==
    /\ pc \in {"removed", "handled"}
    /\ exitCode' = IF variant = "copy" THEN 1
                   ELSE IF pc = "removed" THEN 0 ELSE 1
    /\ pc' = "exit"
    /\ UNCHANGED <<variant, enforce, ends, session, log, trials, last, idleVars>>

Next ==
    \/ FindModelFile
    \/ StartClient
    \/ LoadModel
    \/ ListParameters
    \/ OpenLog
    \/ RunTrial
    \/ FinishOptimize
    \/ SaveModel
    \/ RemoveModel
    \/ Teardown
    \/ Exit

Spec == Init /\ [][Next]_vars

\* ------------------------------------------------------------------------
\* Claims about run_trial (specification Spec)
\* ------------------------------------------------------------------------
\* the last call was answered on one of the paths of the trial evaluator:
\* parameters accepted, solve succeeded or failed, metrics present or not,
\* the log sink accepting the row
OnTrialPath == last.called /\ ~last.paramFail /\ ~last.sinkFail

Returned(value) == ~IsRaised(last.out.raised) /\ last.out.ret = value

\* C1: each call of run_trial appends exactly one record to the log before
\* it ends, on every path (solve success, solve failure, metrics missing,
\* sanity bound violated); after the first trial the log is header + 1 row.
C1_OneRowPerTrial ==
    OnTrialPath =>
        /\ Len(last.out.rows) = 1
        /\ log[Len(log)] = last.out.rows[1]
        /\ trials = 1 => Len(log) = 2

\* C2: a solve failure or a metric that try_eval returned as None is
\* recovered as a penalty score: run_trial returns the number 1e6 (the
\* negated penalty) and never raises.
C2_FailuresBecomePenalties ==
    (OnTrialPath /\ (last.solveFail \/ \E i \in 1..3 : last.m[i] = None)) =>
        Returned(Negate(PENALTY))

\* C7: whenever depth_eV cannot be extracted (None), run_trial returns the
\* penalty sentinel, whatever offset_mm and P_est_mW are and whether or not
\* the solve succeeded.
C7_MissingDepthIsPenalty ==
    (last.called /\ ~last.paramFail /\ last.m[1] = None) => Returned(Negate(PENALTY))

\* the engine calls made after the call of solve
AfterSolve(calls) ==
    LET at == CHOOSE i \in 1..Len(calls) : calls[i] = "solve"
    IN  SubSeq(calls, at + 1, Len(calls))

\* C8: when the solve fails, metric extraction is skipped: no evaluate call
\* follows the failed solve, the metric fields of the trial's row are
\* null and the row's score is the penalty sentinel -1e6.
C8_FailedSolveSkipsMetrics ==
    (last.called /\ ~last.paramFail /\ last.solveFail) =>
        /\ \A i \in DOMAIN AfterSolve(last.out.calls) : AfterSolve(last.out.calls)[i] # "evaluate"
        /\ \A r \in DOMAIN last.out.rows :
              /\ last.out.rows[r].depth_eV = None
              /\ last.out.rows[r].offset_mm = None
              /\ last.out.rows[r].P_est_mW = None
              /\ last.out.rows[r].score = PENALTY

\* a metric outside its sanity bound: offset above, depth below, power below
\* (a script that sets no bound of its own is held to the loosest one)
SanityViolated(v, m) ==
    /\ \A i \in 1..3 : m[i] # None
    /\ \/ DLt(OFFSET_MAX(v), m[2])
       \/ DLt(m[1], DEPTH_MIN(v))
       \/ DLt(m[3], POWER_MIN)

\* C9: when the solve succeeds but a metric violates its sanity bound, the
\* score recorded and returned is the penalty sentinel, not the weighted
\* objective value.
C9_SanityViolationIsPenalty ==
    (OnTrialPath /\ ~last.solveFail /\ SanityViolated(variant, last.m)) =>
        /\ Returned(Negate(PENALTY))
        /\ \A r \in DOMAIN last.out.rows : last.out.rows[r].score = PENALTY

\* ------------------------------------------------------------------------
\* Claims about the feasibility corrector (specification SpecCorr)
\* ------------------------------------------------------------------------
\* target radius the corrector computed for the vector it was handed
TargetRadius(p) == SphereRadius(Sqrt(EnclosingSq(p, cthick, crad)), p[i_radius])

\* C3: the corrector is idempotent: applied to its own output it returns
\* that output unchanged with the flag "not modified" (stated for a positive
\* rod radius, where the target radius is positive).
C3_Idempotent ==
    (cpc = "twice" /\ RLt(RInt(0), cin[i_radius])) => (cout2.p = cout1.p /\ ~cout2.adjusted /\ ~cout2.raised)

\* C4: whenever the corrector fires, the geometry derived from its output
\* fits the target sphere: half_height^2 + struct_radius^2 <= R_sphere^2
\* (stated for a positive rod radius, where the target radius is positive).
C4_OutputFitsSphere ==
    (cpc = "once" /\ cout1.adjusted /\ RLt(RInt(0), cin[i_radius]) /\ AllRational(cout1.p)) =>
        RLeq(EnclosingSq(cout1.p, cthick, crad), XSqr(TargetRadius(cin)))

\* C5: if the target sphere radius is <= 0 the corrector leaves every
\* parameter unchanged and does not rescale.
C5_DegenerateRadiusUnchanged ==
    (cpc = "once" /\ XLeq(TargetRadius(cin), RInt(0))) =>
        (cout1.p = cin /\ ~cout1.adjusted /\ ~cout1.raised)

\* the geometry derived from p lies within the sphere of the target radius
FitsSphere(p) ==
    /\ Sign(TargetRadius(p)) >= 0
    /\ RLeq(EnclosingSq(p, cthick, crad), XSqr(TargetRadius(p)))

\* C6: the corrector changes no component other than rod_spacing,
\* rod_length and endcap_offset, and a geometry that already satisfies the
\* sphere bound comes back unchanged with the flag "not modified".
C6_FrameAndNoOp ==
    /\ cpc \in {"once", "twice"} =>
          /\ \A i \in {1, 2, 3, i_radius} : cout1.p[i] = cin[i]
          /\ FitsSphere(cin) => (cout1.p = cin /\ ~cout1.adjusted)
    /\ cpc = "twice" =>
          /\ \A i \in {1, 2, 3, i_radius} : cout2.p[i] = cout1.p[i]
          /\ FitsSphere(cout1.p) => (cout2.p = cout1.p /\ ~cout2.adjusted)

\* C6 witness: the corrector fired on a positive rod radius and shrank the
\* rod length, and another run returned a fitting geometry as it was.
C6_Witness ==
    /\ cpc = "once"
    /\ cout1.adjusted
    /\ RLt(RInt(0), cin[i_radius])
    /\ cout1.p[i_length] # cin[i_length]
    /\ XLeq(cout1.p[i_length], cin[i_length])

\* ------------------------------------------------------------------------
\* Claims about the parameter mapper (specification SpecNorm)
\* ------------------------------------------------------------------------
\* C10: normalize and denormalize are mutually inverse over the bounds
\* table: the vector mapped there and back is the vector that was handed in,
\* from the physical side and from the normalized side.
C10_RoundTrip == npc = "round" => nout = nin

\* C10 witness: a physical vector off the bounds' corners went through
\* normalize and denormalize.
C10_Witness ==
    /\ npc = "round"
    /\ nkind = "physical"
    /\ nmid # nin
    /\ \E i \in 1..10 : RLt(RInt(0), nmid[i]) /\ RLt(nmid[i], RInt(1))

\* ------------------------------------------------------------------------
\* Claims about the scoring function (specification SpecObj)
\* ------------------------------------------------------------------------
\* C11: with offset and power fixed, the larger depth has the strictly
\* larger score; with depth and power fixed, the smaller offset has the
\* strictly larger score, for every pair of metric triples
C11_Monotonic ==
    opc = "scored" =>
        /\ (oa[2] = ob[2] /\ oa[3] = ob[3] /\ DLt(oa[1], ob[1])) => ScoreLt(otable, osa, osb)
        /\ (oa[1] = ob[1] /\ oa[3] = ob[3] /\ DLt(ob[2], oa[2])) => ScoreLt(otable, osa, osb)

\* ------------------------------------------------------------------------
\* Claims about main() (specification Spec)
\* ------------------------------------------------------------------------
\* C12: the process exits with a non-zero status when the model file is not
\* found (status 2) and when an exception is raised by the client start or
\* inside the try block of main() (a status other than 0 and 2)
C12_FatalExitIsNonZero ==
    [][(pc' = "exit" /\ pc \in {"start", "found", "handled"}) =>
            /\ exitCode' # 0
            /\ (pc = "start") <=> (exitCode' = 2)]_vars

\* C13: once the session is open, the run ends with the model removed
\* (success path) or with client.stop() / client.remove_all() attempted
\* (error paths), and no engine call follows the release
C13_SessionReleased ==
    /\ (pc = "exit" /\ session # "none") => session \in {"released", "stop_failed"}
    /\ (pc = "removed") => session = "released"
    /\ (pc = "handled") => session \in {"released", "stop_failed"}
    /\ (session \in {"released", "stop_failed"}) => pc \in {"removed", "handled", "exit"}

C13_Witness ==
    /\ pc = "exit"
    /\ session = "stop_failed"
    /\ trials = 1
    /\ IsRaised(last.out.raised)

\* C17: a run that found the file, started the session, finished the
\* optimizer, saved and removed the model exits with status 0, and
\* a non-zero status comes from no such run
C17_SuccessExitsZero ==
    [][(pc' = "exit") =>
            /\ (pc = "removed") => (exitCode' = 0)
            /\ (exitCode' # 0) => (pc # "removed")]_vars

\* ------------------------------------------------------------------------
\* Claims about the optimizer's calls of run_trial (specification Spec)
\* ------------------------------------------------------------------------
\* a is the negative of the score sc
IsNegativeOf(a, sc) ==
    IF sc.tag = "const" THEN a.tag = "const" /\ a.value = 0 - sc.value
    ELSE /\ sc.tag = "objective" /\ a.tag = "objective"
         /\ a.sign = 0 - sc.sign
         /\ a.depth = sc.depth /\ a.offset = sc.offset /\ a.power = sc.power

\* the call of run_trial recorded in last, with a log sink that accepts the row
LastWithRow == Evaluate(variant, last.pt, last.paramFail, last.solveFail, last.m, FALSE)

\* C14: when run_trial returns, the value returned is the negative of the
\* score of the trial's row (1e6 for the penalty), whether or not the row
\* could be written
C14_ReturnsNegativeOfRowScore ==
    (last.called /\ ~IsRaised(last.out.raised)) =>
        /\ Len(LastWithRow.rows) = 1
        /\ IsNegativeOf(last.out.ret, LastWithRow.rows[1].score)
        /\ (~last.sinkFail) => (last.out.rows = LastWithRow.rows)
        /\ (LastWithRow.rows[1].score = PENALTY) => (last.out.ret = Const(1000000))

C14_Witness ==
    /\ last.called /\ ~IsRaised(last.out.raised)
    /\ last.sinkFail /\ last.solveFail
    /\ last.out.rows = <<>>
    /\ last.out.ret = Const(1000000)

\* C15: every vector a trial of copy or easy pushes into the engine has each
\* component within its (low, high) bound of the script's table
C15_PushedWithinBounds ==
    (last.called /\ variant \in {"copy", "easy"}) =>
        \A i \in DOMAIN last.out.pushed :
            /\ RLeq(bounds(variant)[i][1], last.out.pushed[i])
            /\ RLeq(last.out.pushed[i], bounds(variant)[i][2])

\* ------------------------------------------------------------------------
\* Claim about the clamps of the corrector (specification SpecCorr)
\* ------------------------------------------------------------------------
\* required enclosing radius of the input, and 50 x rod_radius
RequiredRadius == Sqrt(EnclosingSq(cin, cthick, crad))
FiftyRadii == RMul(RInt(50), cin[i_radius])

\* C16: for rod_radius > 0 the corrector fires exactly when the required
\* radius R_min exceeds 50 x rod_radius, and then multiplies rod_spacing,
\* rod_length and endcap_offset by (50 x rod_radius) / R_min, a factor
\* strictly between 0 and 1
C16_FiresIffAboveFiftyRadii ==
    (cpc = "once" /\ RLt(RInt(0), cin[i_radius])) =>
        /\ ~cout1.raised
        /\ cout1.adjusted <=> ~XLeq(RequiredRadius, FiftyRadii)
        /\ cout1.adjusted =>
              LET scale == XDiv(FiftyRadii, RequiredRadius)
              IN  /\ Sign(scale) = 1
                  /\ XLeq(scale, RInt(1)) /\ ~XLeq(RInt(1), scale)
                  /\ \A k \in {i_spacing, i_length, i_endcap_off} :
                        cout1.p[k] = XMul(cin[k], scale)

C16_Witness ==
    /\ cpc = "once"
    /\ RLt(RInt(0), cin[i_radius])
    /\ cout1.adjusted
    /\ cout1.p[i_length] # cin[i_length]

====
